---- MODULE Spec2Model ----
(***************************************************************************)
(* Checkpoint-and-exit bridge of the polybft consensus                      *)
(* (consensus/polybft/checkpoint_manager.go).                               *)
(*                                                                          *)
(* The model holds the finalized chain, the exit event store (events,       *)
(* watermark, pending-slash-exit queue), the in-memory cadence hint         *)
(* lastSentBlock, the background submitCheckpoint goroutines launched by    *)
(* PostBlock, and the root chain's CheckpointManager contract.              *)
(***************************************************************************)
EXTENDS Integers, Sequences, FiniteSets, TLC

\* Number of finalized blocks in the checkpoint-submission specification.
MaxBlock == 3
\* Number of finalized blocks in the event-store specification.
MaxStoreBlock == 2
\* Number of submissions launched in the checkpoint-submission specification.
MaxTasks == 2
\* Exit event IDs are 1..MaxExit.
MaxExit == 2
\* req.CurrentClientConfig.CheckpointInterval, a configuration value.
CheckpointInterval == 2
\* Length of the epochs of the event-store specification.
EpochSize == 2

VARIABLES
    headers,        \* blockchain: finalized blocks, headers[n] is block n
    exitStore,      \* state.ExitEventStore: the stored exit events
    lastSaved,      \* state.ExitEventStore: the watermark (last processed block)
    pendingSlash,   \* state.ExitEventStore: pending slash exit IDs
    lastSentBlock,  \* checkpointManager.lastSentBlock
    tasks,          \* goroutines running submitCheckpoint, in launch order
    rootCursor,     \* root chain: currentCheckpointBlockNumber
    accepted,       \* root chain: the accepted checkpoints, in order
    call,           \* the last PostBlock call: its request, fault and result
    proofCall,      \* the proof request answered in this state, and its answer
    parseCall       \* a call of parseEvent: its header, its log and its result

vars == <<headers, exitStore, lastSaved, pendingSlash, lastSentBlock, tasks,
          rootCursor, accepted, call, proofCall, parseCall>>

ExitIDs == 1..MaxExit

Self == "self"
Other == "other"

\* The steps of PostBlock that can return an error.
Faults == {"none", "getLastSaved", "getFromBlocks", "insertExitEvents",
           "updateLastSaved", "removeSlashExitEvents"}

NoCall == [block |-> 0, failAt |-> "none", res |-> "none", launched |-> FALSE,
           preLastSent |-> 0, preLastSaved |-> 0, preTasks |-> 0]

\* No proof request is being answered: the answer of a request stands for the
\* state it was computed in, and is dropped when the node or the root chain
\* moves on.
NoProofCall == [op |-> "none"]

\* parseEvent has not been called.
NoParseCall == [op |-> "none"]

----------------------------------------------------------------------------
(* Blocks and headers *)

\* Logs of the two watched contracts: an exit event, a slash event. The
\* logs of a finalized block decode (valid).
ExitLog(id) == [topic |-> "exit", id |-> id, valid |-> TRUE]
SlashLog(id) == [topic |-> "slash", id |-> id, valid |-> TRUE]

\* Extra.Checkpoint.EpochNumber of the header of block n.
EpochNumber(hdrs, n) == hdrs[n].epoch

\* The epoch consensus gives the next block: a new epoch starts after an
\* epoch-ending block.
NextEpoch(hdrs) ==
    IF hdrs = <<>> THEN 1
    ELSE LET last == hdrs[Len(hdrs)]
         IN IF last.isEnd THEN last.epoch + 1 ELSE last.epoch

\* A finalized block: isEnd is both req.IsEpochEndingBlock and
\* Extra.Validators # nil of its header; the extra data of a finalized
\* header decodes (extraOk).
NewBlock(hdrs, isEnd, miner, logs) ==
    [number |-> Len(hdrs) + 1, epoch |-> NextEpoch(hdrs), isEnd |-> isEnd,
     miner |-> miner, logs |-> logs, extraOk |-> TRUE]

LogIDs(hdrs, topic) ==
    UNION {{hdrs[n].logs[k].id : k \in {j \in DOMAIN hdrs[n].logs :
                                          hdrs[n].logs[j].topic = topic}}
           : n \in DOMAIN hdrs}

\* Exit IDs already emitted by a finalized block: the L2StateSender contract
\* gives every exit a fresh ID.
UsedExitIDs(hdrs) == LogIDs(hdrs, "exit")

\* Exit IDs some finalized block carries a slash event for.
SlashedIDs(hdrs) == LogIDs(hdrs, "slash")

----------------------------------------------------------------------------
(* Event extraction *)

\* The nil event parseEvent returns with no match.
NoEvent == [kind |-> "none"]

\* parseEvent with only the epoch moved for an epoch-ending header: the
\* block number stays the header's.
parseEventOwnBlock(h, l) ==
    IF l.topic = "exit"
    THEN IF ~h.extraOk \/ ~l.valid
         THEN [matches |-> FALSE, event |-> NoEvent, err |-> TRUE]
         ELSE [matches |-> TRUE, err |-> FALSE,
               event |-> [kind |-> "exit", ID |-> l.id,
                          EpochNumber |-> IF h.isEnd THEN h.epoch + 1 ELSE h.epoch,
                          BlockNumber |-> h.number]]
    ELSE IF l.topic = "slash"
    THEN [matches |-> l.valid, event |-> [kind |-> "slash", ExitID |-> l.id],
          err |-> ~l.valid]
    ELSE [matches |-> FALSE, event |-> NoEvent, err |-> FALSE]

\* parseEvent: the event of log l of header h. An exit event of an
\* epoch-ending header is attributed to the next epoch and the next block;
\* the parse fails when the header's extra data or the log does not decode.
parseEvent(h, l) ==
    IF l.topic = "exit"
    THEN IF ~h.extraOk
         THEN [matches |-> FALSE, event |-> NoEvent, err |-> TRUE]
         ELSE LET epoch == h.epoch
                  block == h.number
              IN IF ~l.valid
                 THEN [matches |-> FALSE, event |-> NoEvent, err |-> TRUE]
                 ELSE [matches |-> TRUE, err |-> FALSE,
                       event |-> [kind |-> "exit", ID |-> l.id,
                                  EpochNumber |-> IF h.isEnd THEN epoch + 1 ELSE epoch,
                                  BlockNumber |-> IF h.isEnd THEN block + 1 ELSE block]]
    ELSE IF l.topic = "slash"
    THEN [matches |-> l.valid, event |-> [kind |-> "slash", ExitID |-> l.id],
          err |-> ~l.valid]
    ELSE [matches |-> FALSE, event |-> NoEvent, err |-> FALSE]

RECURSIVE eventsOfLogs(_, _, _)
eventsOfLogs(h, logs, k) ==
    IF k > Len(logs) THEN <<>>
    ELSE LET r == parseEvent(h, logs[k])
         IN (IF r.matches THEN <<r.event>> ELSE <<>>) \o eventsOfLogs(h, logs, k + 1)

\* eventsGetter.getFromBlocks: the events of the blocks after the watermark,
\* up to and including the new block, in block and log order.
RECURSIVE getFromBlocks(_, _, _)
getFromBlocks(lastProcessedBlock, block, hdrs) ==
    IF lastProcessedBlock >= block THEN <<>>
    ELSE getFromBlocks(lastProcessedBlock, block - 1, hdrs)
         \o eventsOfLogs(hdrs[block], hdrs[block].logs, 1)

SelectKind(events, kind) == SelectSeq(events, LAMBDA e : e.kind = kind)

\* sort.Slice by ID: insertion of each event before the first larger ID.
RECURSIVE insertByID(_, _)
insertByID(sorted, e) ==
    IF sorted = <<>> THEN <<e>>
    ELSE IF e.ID < Head(sorted).ID THEN <<e>> \o sorted
    ELSE <<Head(sorted)>> \o insertByID(Tail(sorted), e)

RECURSIVE sortByID(_)
sortByID(events) ==
    IF events = <<>> THEN <<>>
    ELSE insertByID(sortByID(SubSeq(events, 1, Len(events) - 1)), events[Len(events)])

----------------------------------------------------------------------------
(* Exit event store *)

ExitKey(e) == <<e.EpochNumber, e.ID>>

\* insertExitEvents: every event is put under its key (epoch, id).
RECURSIVE insertExitEvents(_, _)
insertExitEvents(store, events) ==
    IF events = <<>> THEN store
    ELSE LET e == Head(events)
             stored == [ID |-> e.ID, EpochNumber |-> e.EpochNumber,
                        BlockNumber |-> e.BlockNumber]
         IN insertExitEvents({x \in store : ExitKey(x) # ExitKey(stored)} \cup {stored},
                             Tail(events))

\* A range read returns the events in key order: ascending ID inside an epoch.
RECURSIVE ascendingByID(_)
ascendingByID(S) ==
    IF S = {} THEN <<>>
    ELSE LET m == CHOOSE x \in S : \A y \in S : x.ID <= y.ID
         IN <<m>> \o ascendingByID(S \ {m})

getExitEventsByEpoch(store, epoch) ==
    ascendingByID({e \in store : e.EpochNumber = epoch})

getExitEventsForProof(store, epoch, maxBlock) ==
    ascendingByID({e \in store : e.EpochNumber = epoch /\ e.BlockNumber <= maxBlock})

\* removeSlashExitEvents: absent IDs are ignored.
removeSlashExitEvents(pending, ids) == pending \ ids

\* The pending-slash-exit queue is read in key order.
getPendingSlashExitIDs(pending) ==
    LET RECURSIVE asc(_)
        asc(S) == IF S = {} THEN <<>>
                  ELSE LET m == CHOOSE x \in S : \A y \in S : x <= y
                       IN <<m>> \o asc(S \ {m})
    IN asc(pending)

----------------------------------------------------------------------------
(* Event root *)

ZeroHash == <<"zero">>

\* L2StateSyncedEvent.Encode: the ABI encoding of the exit's own fields; the
\* epoch and block the event is filed under are not part of it.
EncodeExit(e) == <<"L2StateSynced", e.ID>>

\* merkle.NewMerkleTree: the hash of a tree is a function of the leaf
\* sequence, kept symbolic: a leaf, or a node over the two halves.
RECURSIVE MerkleHash(_)
MerkleHash(leaves) ==
    IF Len(leaves) = 1 THEN <<"leaf", leaves[1]>>
    ELSE LET half == (Len(leaves) + 1) \div 2
         IN <<"node", MerkleHash(SubSeq(leaves, 1, half)),
                      MerkleHash(SubSeq(leaves, half + 1, Len(leaves)))>>

\* createExitTree filling the leaves from the last index down.
createExitTreeReversed(exitEvents) ==
    LET numOfEvents == Len(exitEvents)
    IN [i \in 1..numOfEvents |-> EncodeExit(exitEvents[numOfEvents + 1 - i])]

\* createExitTree: the leaves are the encodings of the events, in the order given.
createExitTree(exitEvents) ==
    LET numOfEvents == Len(exitEvents)
    IN [i \in 1..numOfEvents |-> EncodeExit(exitEvents[i])]

BuildEventRoot(store, epoch) ==
    LET exitEvents == getExitEventsByEpoch(store, epoch)
    IN IF Len(exitEvents) = 0 THEN ZeroHash
       ELSE MerkleHash(createExitTree(exitEvents))

----------------------------------------------------------------------------
(* PostBlock *)

\* persistSteps with the watermark written before the exit events.
persistStepsWatermarkFirst(store, saved, pending, hdrs, block, failAt) ==
    LET events == getFromBlocks(saved, block, hdrs)
        exitEvents == sortByID(SelectKind(events, "exit"))
        slashedEvents == SelectKind(events, "slash")
        processedExitIDs == {slashedEvents[i].ExitID : i \in DOMAIN slashedEvents}
        inserted == insertExitEvents(store, exitEvents)
    IN IF failAt \in {"getLastSaved", "getFromBlocks", "updateLastSaved"}
       THEN [store |-> store, saved |-> saved, pending |-> pending, err |-> TRUE]
       ELSE IF failAt = "insertExitEvents"
       THEN [store |-> store, saved |-> block, pending |-> pending, err |-> TRUE]
       ELSE IF failAt = "removeSlashExitEvents"
       THEN [store |-> inserted, saved |-> block, pending |-> pending, err |-> TRUE]
       ELSE [store |-> inserted, saved |-> block,
             pending |-> removeSlashExitEvents(pending, processedExitIDs),
             err |-> FALSE]

\* The store operations of PostBlock, in the order of the code, with the
\* step failAt returning an error: the result is the store PostBlock leaves
\* and whether it returned an error before the checkpoint decision.
persistSteps(store, saved, pending, hdrs, block, failAt) ==
    LET lastBlock == saved
        events == getFromBlocks(lastBlock, block, hdrs)
        exitEvents == sortByID(SelectKind(events, "exit"))
        slashedEvents == SelectKind(events, "slash")
        processedExitIDs == {slashedEvents[i].ExitID : i \in DOMAIN slashedEvents}
        inserted == insertExitEvents(store, exitEvents)
    IN IF failAt \in {"getLastSaved", "getFromBlocks", "insertExitEvents"}
       THEN [store |-> store, saved |-> saved, pending |-> pending, err |-> TRUE]
       ELSE IF failAt = "updateLastSaved"
       THEN [store |-> inserted, saved |-> saved, pending |-> pending, err |-> TRUE]
       ELSE IF failAt = "removeSlashExitEvents"
       THEN [store |-> inserted, saved |-> block, pending |-> pending, err |-> TRUE]
       ELSE [store |-> inserted, saved |-> block,
             pending |-> removeSlashExitEvents(pending, processedExitIDs),
             err |-> FALSE]

\* isCheckpointBlock firing on every block at or after the cadence hint.
isCheckpointBlockAtOrAfter(blockNumber, checkpointsOffset, isEpochEndingBlock) ==
    isEpochEndingBlock \/ blockNumber >= lastSentBlock + checkpointsOffset

isCheckpointBlock(blockNumber, checkpointsOffset, isEpochEndingBlock) ==
    isEpochEndingBlock \/ blockNumber = lastSentBlock + checkpointsOffset

\* launchesCheckpoint with the goroutine started before the store steps'
\* error is looked at.
launchesCheckpointBeforeErrorCheck(err, h) ==
    /\ isCheckpointBlock(h.number, CheckpointInterval, h.isEnd)
    /\ h.miner = Self

\* launchesCheckpoint without the comparison of the miner with the node's key.
launchesCheckpointAnyMiner(err, h) ==
    /\ ~err
    /\ isCheckpointBlock(h.number, CheckpointInterval, h.isEnd)

\* Whether PostBlock, its store steps having ended with err, starts the
\* goroutine for the block of header h.
launchesCheckpoint(err, h) ==
    /\ ~err
    /\ isCheckpointBlock(h.number, CheckpointInterval, h.isEnd)
    /\ h.miner = Self

\* The goroutine started for header `number`: submitCheckpoint(header, flag)
\* before its first statement.
NewTask(number, flag) ==
    [N |-> number, flag |-> flag, pc |-> "start", L |-> 0, bn |-> 0,
     parentHeader |-> 0, parentExtra |-> 0, currentExtra |-> 0, sent |-> <<>>,
     lookups |-> {}, err |-> "none"]

\* lastSentAfter with the assignment outside the if: every block PostBlock
\* gets through is recorded.
lastSentAfterEveryBlock(launch, number, last) == number

\* c.lastSentBlock when PostBlock returns nil: the block's number when the
\* goroutine was started, and as it was otherwise.
lastSentAfter(launch, number, last) == IF launch THEN number ELSE last

\* PostBlock(req) for block `block` of the chain hdrs.
postBlock(block, hdrs, failAt) ==
    LET h == hdrs[block]
        p == persistSteps(exitStore, lastSaved, pendingSlash, hdrs, block, failAt)
        launch == launchesCheckpoint(p.err, h)
    IN /\ headers' = hdrs
       /\ exitStore' = p.store
       /\ lastSaved' = p.saved
       /\ pendingSlash' = p.pending
       /\ tasks' = IF launch THEN Append(tasks, NewTask(h.number, h.isEnd)) ELSE tasks
       /\ lastSentBlock' = IF p.err THEN lastSentBlock
                           ELSE lastSentAfter(launch, h.number, lastSentBlock)
       /\ call' = [block |-> block, failAt |-> failAt,
                   res |-> IF p.err THEN "err" ELSE "ok", launched |-> launch,
                   preLastSent |-> lastSentBlock, preLastSaved |-> lastSaved,
                   preTasks |-> Len(tasks)]
       /\ proofCall' = NoProofCall
       /\ UNCHANGED <<rootCursor, accepted, parseCall>>

\* A new block is finalized and PostBlock is called for it.
PostBlock(blk, failAt) ==
    postBlock(Len(headers) + 1, Append(headers, blk), failAt)

\* The runtime calls PostBlock again for the block whose call returned an error.
PostBlockRetry(failAt) ==
    /\ call.res = "err"
    /\ call.block = Len(headers)
    /\ postBlock(Len(headers), headers, failAt)

Running(t) == t.pc \in {"start", "walk"}

\* The node restarts: newCheckpointManager leaves lastSentBlock zero and the
\* goroutines of the old process are gone. The store and the chains persist.
Restart ==
    /\ lastSentBlock # 0 \/ \E i \in DOMAIN tasks : Running(tasks[i])
    /\ lastSentBlock' = 0
    /\ tasks' = [i \in DOMAIN tasks |->
                    IF Running(tasks[i]) THEN [tasks[i] EXCEPT !.pc = "killed"]
                    ELSE tasks[i]]
    /\ call' = NoCall
    /\ proofCall' = NoProofCall
    /\ UNCHANGED <<headers, exitStore, lastSaved, pendingSlash, rootCursor, accepted,
                   parseCall>>

\* An exit already in the store is queued as a pending slash exit.
EnqueueSlashExit(id) ==
    /\ id \in {e.ID : e \in exitStore}
    /\ id \notin pendingSlash
    /\ id \notin SlashedIDs(headers)
    /\ pendingSlash' = pendingSlash \cup {id}
    /\ proofCall' = NoProofCall
    /\ UNCHANGED <<headers, exitStore, lastSaved, lastSentBlock, tasks,
                   rootCursor, accepted, call, parseCall>>

----------------------------------------------------------------------------
(* Root chain *)

\* CheckpointManager contract: a checkpoint is accepted only for a block
\* above currentCheckpointBlockNumber, which then moves to that block.
rootAccepts(cursor, block) == block > cursor

----------------------------------------------------------------------------
(* submitCheckpoint *)

\* consensusBackend.GetValidators(number): the validator set as of a block.
GetValidators(number) == <<"validators", number>>

EmptyAccountSet == <<>>

\* abiEncodeCheckpointBlock: the payload for block blockNumber (its hash is
\* that of header blockHash) with the metadata of the header `extra`.
abiEncodeCheckpointBlock(blockNumber, blockHash, extra, nextValidators, hdrs) ==
    [BlockNumber |-> blockNumber, BlockHash |-> blockHash,
     Epoch |-> EpochNumber(hdrs, extra), Metadata |-> extra,
     NewValidatorSet |-> nextValidators]

\* checkpointTxn fetching the validator set for every checkpoint.
checkpointTxnAlwaysValidators(header, extra, isEndOfEpoch, hdrs) ==
    [input |-> abiEncodeCheckpointBlock(header, header, extra, GetValidators(header),
                                        hdrs),
     isEndOfEpoch |-> isEndOfEpoch]

\* The transaction encodeAndSendCheckpoint(header, extra, isEndOfEpoch) sends.
checkpointTxn(header, extra, isEndOfEpoch, hdrs) ==
    LET nextEpochValidators == IF isEndOfEpoch THEN GetValidators(header)
                               ELSE EmptyAccountSet
    IN [input |-> abiEncodeCheckpointBlock(header, header, extra,
                                           nextEpochValidators, hdrs),
        isEndOfEpoch |-> isEndOfEpoch]

\* walkLoop with the loop ending one block early: the last pair of headers,
\* N-1 and N, is never compared.
RECURSIVE walkLoopEndsEarly(_, _, _, _, _, _, _)
walkLoopEndsEarly(blockNumber, parentHeader, parentExtra, currentExtra, N, hdrs, looked) ==
    IF blockNumber >= N
    THEN [send |-> FALSE, blockNumber |-> blockNumber, parentHeader |-> parentHeader,
          parentExtra |-> parentExtra, currentExtra |-> currentExtra, looked |-> looked]
    ELSE IF blockNumber = 1
            \/ EpochNumber(hdrs, parentExtra) = EpochNumber(hdrs, blockNumber)
    THEN walkLoopEndsEarly(blockNumber + 1, blockNumber, blockNumber, blockNumber, N,
                           hdrs, looked \cup {blockNumber})
    ELSE [send |-> TRUE, blockNumber |-> blockNumber, parentHeader |-> parentHeader,
          parentExtra |-> parentExtra, currentExtra |-> blockNumber,
          looked |-> looked \cup {blockNumber}]

\* walkLoop without the comparison of the epoch numbers: every parent but
\* that of block 1 is sent as a pending checkpoint.
walkLoopEveryBlock(blockNumber, parentHeader, parentExtra, currentExtra, N, hdrs, looked) ==
    IF blockNumber > N
    THEN [send |-> FALSE, blockNumber |-> blockNumber, parentHeader |-> parentHeader,
          parentExtra |-> parentExtra, currentExtra |-> currentExtra, looked |-> looked]
    ELSE [send |-> TRUE, blockNumber |-> blockNumber, parentHeader |-> parentHeader,
          parentExtra |-> parentExtra, currentExtra |-> blockNumber,
          looked |-> looked \cup {blockNumber}]

\* walkLoop with parentExtra left behind when the loop continues: only
\* parentHeader moves to the current header.
RECURSIVE walkLoopStaleExtra(_, _, _, _, _, _, _)
walkLoopStaleExtra(blockNumber, parentHeader, parentExtra, currentExtra, N, hdrs, looked) ==
    IF blockNumber > N
    THEN [send |-> FALSE, blockNumber |-> blockNumber, parentHeader |-> parentHeader,
          parentExtra |-> parentExtra, currentExtra |-> currentExtra, looked |-> looked]
    ELSE IF blockNumber = 1
            \/ EpochNumber(hdrs, parentExtra) = EpochNumber(hdrs, blockNumber)
    THEN walkLoopStaleExtra(blockNumber + 1, blockNumber, parentExtra, blockNumber, N,
                            hdrs, looked \cup {blockNumber})
    ELSE [send |-> TRUE, blockNumber |-> blockNumber, parentHeader |-> parentHeader,
          parentExtra |-> parentExtra, currentExtra |-> blockNumber,
          looked |-> looked \cup {blockNumber}]

\* The for loop of submitCheckpoint from blockNumber on, up to the next
\* pending checkpoint (send: parentHeader is an epoch-ending block to submit
\* with parentExtra) or to the end of the loop. parentHeader, parentExtra and
\* currentExtra are the numbers of the blocks the header and the decoded
\* metadata come from.
RECURSIVE walkLoop(_, _, _, _, _, _, _)
walkLoop(blockNumber, parentHeader, parentExtra, currentExtra, N, hdrs, looked) ==
    IF blockNumber > N
    THEN [send |-> FALSE, blockNumber |-> blockNumber, parentHeader |-> parentHeader,
          parentExtra |-> parentExtra, currentExtra |-> currentExtra, looked |-> looked]
    ELSE IF blockNumber = 1
            \/ EpochNumber(hdrs, parentExtra) = EpochNumber(hdrs, blockNumber)
    THEN walkLoop(blockNumber + 1, blockNumber, blockNumber, blockNumber, N, hdrs,
                  looked \cup {blockNumber})
    ELSE [send |-> TRUE, blockNumber |-> blockNumber, parentHeader |-> parentHeader,
          parentExtra |-> parentExtra, currentExtra |-> blockNumber,
          looked |-> looked \cup {blockNumber}]

\* goroutineResult with the error handed back to the caller of PostBlock.
goroutineResultReturned(c, failed) ==
    IF failed THEN [c EXCEPT !.res = "err"] ELSE c

\* What the goroutine's result does to the PostBlock call that launched it:
\* an error of submitCheckpoint is logged as a warning, nothing is returned.
goroutineResult(c, failed) == c

\* afterSend with the error of a pending checkpoint dropped: the loop goes on.
afterSendIgnoringError(outcome, pending) ==
    IF pending THEN "walk"
    ELSE IF outcome = "accepted" THEN "ok" ELSE "failed"

\* afterSend without the check of the receipt's status: a transaction that
\* was mined and failed counts as sent.
afterSendIgnoringReceiptStatus(outcome, pending) ==
    IF outcome \notin {"accepted", "receipt"} THEN "failed"
    ELSE IF pending THEN "walk" ELSE "ok"

\* Where submitCheckpoint stands after encodeAndSendCheckpoint: an error is
\* returned at once; after a pending checkpoint the loop goes on, after the
\* checkpoint of latestHeader the call returns nil.
afterSend(outcome, pending) ==
    IF outcome # "accepted" THEN "failed"
    ELSE IF pending THEN "walk" ELSE "ok"

\* initialBlock taken from the local hint when it is ahead of the root chain.
initialBlockFromHint(lastCheckpointBlockNumber) ==
    IF lastSentBlock > lastCheckpointBlockNumber THEN lastSentBlock + 1
    ELSE lastCheckpointBlockNumber + 1

\* initialBlock starting at the cursor itself, not at the block after it.
initialBlockAtCursor(lastCheckpointBlockNumber) == lastCheckpointBlockNumber

\* The block the catch-up walk starts from, given the cursor the root chain
\* reported.
initialBlock(lastCheckpointBlockNumber) == lastCheckpointBlockNumber + 1

\* Faults of the first part of submitCheckpoint.
StartFaults == {"none", "cursor", "header"}

\* submitCheckpoint up to the loop: the root chain's cursor is read and the
\* header after it is the first parent.
SubmitStart(i, fault) ==
    /\ i \in DOMAIN tasks
    /\ tasks[i].pc = "start"
    /\ LET t == tasks[i]
           lastCheckpointBlockNumber == rootCursor
           initialBlockNumber == initialBlock(lastCheckpointBlockNumber)
           loads == initialBlockNumber < t.N
       IN /\ fault = "header" => loads
          /\ tasks' = [tasks EXCEPT ![i] =
                IF fault = "cursor"
                THEN [t EXCEPT !.pc = "failed", !.err = fault]
                ELSE IF fault = "header"
                THEN [t EXCEPT !.pc = "failed", !.err = fault,
                               !.L = lastCheckpointBlockNumber,
                               !.lookups = {initialBlockNumber}]
                ELSE [t EXCEPT !.pc = "walk", !.L = lastCheckpointBlockNumber,
                               !.bn = initialBlockNumber + 1,
                               !.parentHeader = IF loads THEN initialBlockNumber ELSE 0,
                               !.parentExtra = IF loads THEN initialBlockNumber ELSE 0,
                               !.lookups = IF loads THEN {initialBlockNumber} ELSE {}]]
    /\ call' = goroutineResult(call, fault # "none")
    /\ proofCall' = NoProofCall
    /\ UNCHANGED <<headers, exitStore, lastSaved, pendingSlash, lastSentBlock,
                   rootCursor, accepted, parseCall>>

\* Faults before the transaction is sent, and what becomes of the transaction.
StepFaults == {"none", "header", "validators", "encode"}
TxOutcomes == {"accepted", "lost", "senderr", "receipt"}

\* submitCheckpoint from the loop to its next encodeAndSendCheckpoint: the
\* walk to the next missed epoch-ending block, or to the end of the loop and
\* the checkpoint of latestHeader.
SubmitStep(i, fault, outcome) ==
    /\ i \in DOMAIN tasks
    /\ tasks[i].pc = "walk"
    /\ LET t == tasks[i]
           w == walkLoop(t.bn, t.parentHeader, t.parentExtra, t.currentExtra, t.N,
                         headers, {})
           header == IF w.send THEN w.parentHeader ELSE t.N
           extra == IF w.send THEN w.parentExtra
                    ELSE IF w.currentExtra = 0 THEN t.N ELSE w.currentExtra
           isEndOfEpoch == IF w.send THEN TRUE ELSE t.flag
           txn == checkpointTxn(header, extra, isEndOfEpoch, headers)
           looked == t.lookups \cup w.looked
           mined == outcome \in {"accepted", "lost"}
       IN /\ fault = "header" => (w.looked # {} \/ (~w.send /\ w.currentExtra = 0))
          /\ fault = "validators" => isEndOfEpoch
          /\ fault # "none" => outcome = "senderr"
          /\ mined => rootAccepts(rootCursor, header)
          /\ IF fault # "none"
             THEN /\ tasks' = [tasks EXCEPT ![i] =
                        [t EXCEPT !.pc = "failed", !.err = fault, !.lookups = looked]]
                  /\ UNCHANGED <<rootCursor, accepted>>
             ELSE /\ tasks' = [tasks EXCEPT ![i] =
                        [t EXCEPT !.pc = afterSend(outcome, w.send),
                                  !.bn = IF w.send THEN w.blockNumber + 1
                                         ELSE w.blockNumber,
                                  !.err = IF outcome = "accepted" THEN "none" ELSE outcome,
                                  !.parentHeader = IF w.send THEN w.blockNumber
                                                   ELSE w.parentHeader,
                                  !.parentExtra = IF w.send THEN w.blockNumber
                                                  ELSE w.parentExtra,
                                  !.currentExtra = w.currentExtra,
                                  !.sent = Append(t.sent,
                                      [txn |-> txn, outcome |-> outcome,
                                       cursor |-> rootCursor]),
                                  !.lookups = looked]]
                  /\ rootCursor' = IF mined THEN header ELSE rootCursor
                  /\ accepted' = IF mined THEN Append(accepted, txn) ELSE accepted
    /\ call' = goroutineResult(call, fault # "none" \/ outcome # "accepted")
    /\ proofCall' = NoProofCall
    /\ UNCHANGED <<headers, exitStore, lastSaved, pendingSlash, lastSentBlock,
                   parseCall>>

----------------------------------------------------------------------------
(* Exit proof generator *)

\* The blocks the root chain holds a checkpoint for.
checkpointBlocks(acc) == {acc[k].input.BlockNumber : k \in DOMAIN acc}

\* CheckpointManager contract, getCheckpointBlock(blockNumber): the first
\* checkpoint at or above the block, if there is one.
getCheckpointBlock(checkpoints, blockNumber) ==
    LET covering == {b \in checkpoints : b >= blockNumber}
    IN IF covering = {} THEN [isFound |-> FALSE, checkpointBlock |-> 0]
       ELSE [isFound |-> TRUE,
             checkpointBlock |-> CHOOSE b \in covering : \A c \in covering : b <= c]

NoExitEvent == [ID |-> 0, EpochNumber |-> 0, BlockNumber |-> 0]

\* getExitEvent: point lookup by ID.
getExitEvent(store, exitID) ==
    LET hits == {e \in store : e.ID = exitID}
    IN IF hits = {} THEN [found |-> FALSE, event |-> NoExitEvent]
       ELSE [found |-> TRUE, event |-> CHOOSE e \in hits : TRUE]

\* MerkleTree.LeafIndex: the index, from 0, of the first leaf equal to e.
LeafIndex(tree, e) ==
    LET at == {k \in DOMAIN tree : tree[k] = e}
    IN IF at = {} THEN [found |-> FALSE, index |-> 0]
       ELSE [found |-> TRUE, index |-> (CHOOSE k \in at : \A j \in at : k <= j) - 1]

\* MerkleTree.GenerateProof: the hashes of the siblings on the path from the
\* leaf at index (from 0) to the root, from the bottom up, each with its side.
RECURSIVE GenerateProof(_, _)
GenerateProof(tree, index) ==
    IF Len(tree) = 1 THEN <<>>
    ELSE LET half == (Len(tree) + 1) \div 2
             left == SubSeq(tree, 1, half)
             right == SubSeq(tree, half + 1, Len(tree))
         IN IF index < half
            THEN Append(GenerateProof(left, index),
                        [right |-> TRUE, hash |-> MerkleHash(right)])
            ELSE Append(GenerateProof(right, index - half),
                        [right |-> FALSE, hash |-> MerkleHash(left)])

\* The root a proof leads to from a leaf.
RECURSIVE RootOfProof(_, _)
RootOfProof(hash, proof) ==
    IF proof = <<>> THEN hash
    ELSE RootOfProof(IF Head(proof).right THEN <<"node", hash, Head(proof).hash>>
                     ELSE <<"node", Head(proof).hash, hash>>,
                     Tail(proof))

VerifyProof(leaf, proof, root) == RootOfProof(<<"leaf", leaf>>, proof) = root

\* types.Proof{}
NoProof == [Data |-> <<>>, LeafIndex |-> 0, ExitEvent |-> NoExitEvent,
            CheckpointBlock |-> 0]

\* proofOver reading every event of the epoch, without the limit of the
\* checkpoint block.
proofOverWholeEpoch(store, exitEvent, checkpointBlock, steps) ==
    LET e == EncodeExit(exitEvent)
        exitEvents == getExitEventsByEpoch(store, exitEvent.EpochNumber)
        tree == createExitTree(exitEvents)
        leafIndex == LeafIndex(tree, e)
        did == steps \o <<"getExitEventsForProof", "createExitTree", "LeafIndex">>
    IN IF ~leafIndex.found
       THEN [err |-> TRUE, proof |-> NoProof, steps |-> did, tree |-> tree]
       ELSE [err |-> FALSE,
             proof |-> [Data |-> GenerateProof(tree, leafIndex.index),
                        LeafIndex |-> leafIndex.index, ExitEvent |-> exitEvent,
                        CheckpointBlock |-> checkpointBlock],
             steps |-> Append(did, "GenerateProof"), tree |-> tree]

\* GenerateExitProof from the root chain's answer on: the events of the
\* epoch up to the checkpoint block, their tree, the leaf index and the proof.
proofOver(store, exitEvent, checkpointBlock, steps) ==
    LET e == EncodeExit(exitEvent)
        exitEvents == getExitEventsForProof(store, exitEvent.EpochNumber, checkpointBlock)
        tree == createExitTree(exitEvents)
        leafIndex == LeafIndex(tree, e)
        did == steps \o <<"getExitEventsForProof", "createExitTree", "LeafIndex">>
    IN IF ~leafIndex.found
       THEN [err |-> TRUE, proof |-> NoProof, steps |-> did, tree |-> tree]
       ELSE [err |-> FALSE,
             proof |-> [Data |-> GenerateProof(tree, leafIndex.index),
                        LeafIndex |-> leafIndex.index, ExitEvent |-> exitEvent,
                        CheckpointBlock |-> checkpointBlock],
             steps |-> Append(did, "GenerateProof"), tree |-> tree]

\* What can fail in GenerateExitProof besides the two lookups' answers: the
\* read of the store, the call of the root chain.
ProofFaults == {"none", "getExitEvent", "rpc"}

\* generateExitProof going on when the root chain answers isFound = false,
\* with the checkpoint block of the answer.
generateExitProofIgnoringIsFound(store, checkpoints, exitID, fault) ==
    LET ev == getExitEvent(store, exitID)
        resp == getCheckpointBlock(checkpoints, ev.event.BlockNumber)
    IN IF fault = "getExitEvent" \/ ~ev.found
       THEN [err |-> TRUE, proof |-> NoProof, steps |-> <<"getExitEvent">>, tree |-> <<>>]
       ELSE IF fault = "rpc"
       THEN [err |-> TRUE, proof |-> NoProof,
             steps |-> <<"getExitEvent", "getCheckpointBlock">>, tree |-> <<>>]
       ELSE proofOver(store, ev.event, resp.checkpointBlock,
                      <<"getExitEvent", "getCheckpointBlock">>)

\* GenerateExitProof(exitID) against the store and the root chain's
\* checkpoints: its error, its proof, the steps it took and the tree it built.
generateExitProof(store, checkpoints, exitID, fault) ==
    LET ev == getExitEvent(store, exitID)
        resp == getCheckpointBlock(checkpoints, ev.event.BlockNumber)
    IN IF fault = "getExitEvent" \/ ~ev.found
       THEN [err |-> TRUE, proof |-> NoProof, steps |-> <<"getExitEvent">>, tree |-> <<>>]
       ELSE IF fault = "rpc" \/ ~resp.isFound
       THEN [err |-> TRUE, proof |-> NoProof,
             steps |-> <<"getExitEvent", "getCheckpointBlock">>, tree |-> <<>>]
       ELSE proofOver(store, ev.event, resp.checkpointBlock,
                      <<"getExitEvent", "getCheckpointBlock">>)

\* A request GenerateExitProof(exitID) is answered.
GenerateExitProof(exitID, fault) ==
    /\ fault = "rpc" => getExitEvent(exitStore, exitID).found
    /\ proofCall' = [op |-> "GenerateExitProof", exitID |-> exitID, fault |-> fault,
                     res |-> generateExitProof(exitStore, checkpointBlocks(accepted),
                                               exitID, fault)]
    /\ UNCHANGED <<headers, exitStore, lastSaved, pendingSlash, lastSentBlock, tasks,
                   rootCursor, accepted, call, parseCall>>

\* slashExitProofs leaving the loop at the first ID whose proof fails.
RECURSIVE slashExitProofsStopAtFailure(_, _, _, _)
slashExitProofsStopAtFailure(slashExitIDs, store, checkpoints, failing) ==
    IF slashExitIDs = <<>> THEN <<>>
    ELSE LET slashExitID == Head(slashExitIDs)
             r == generateExitProof(store, checkpoints, slashExitID,
                                    IF slashExitID \in failing THEN "rpc" ELSE "none")
         IN IF r.err THEN <<>>
            ELSE <<r.proof>> \o slashExitProofsStopAtFailure(Tail(slashExitIDs), store,
                                                             checkpoints, failing)

\* The loop of GenerateSlashExitProofs: the proof of every ID in turn; an ID
\* whose proof fails is logged and skipped. The root chain call fails for
\* the IDs of `failing`.
RECURSIVE slashExitProofs(_, _, _, _)
slashExitProofs(slashExitIDs, store, checkpoints, failing) ==
    IF slashExitIDs = <<>> THEN <<>>
    ELSE LET slashExitID == Head(slashExitIDs)
             r == generateExitProof(store, checkpoints, slashExitID,
                                    IF slashExitID \in failing THEN "rpc" ELSE "none")
         IN (IF r.err THEN <<>> ELSE <<r.proof>>)
            \o slashExitProofs(Tail(slashExitIDs), store, checkpoints, failing)

SlashProofFaults == {"none", "getPendingSlashExitIDs"}

generateSlashExitProofs(store, pending, checkpoints, fault, failing) ==
    IF fault = "getPendingSlashExitIDs" THEN [err |-> TRUE, proofs |-> <<>>]
    ELSE [err |-> FALSE,
          proofs |-> slashExitProofs(getPendingSlashExitIDs(pending), store,
                                     checkpoints, failing)]

\* A request GenerateSlashExitProofs() is answered.
GenerateSlashExitProofs(fault, failing) ==
    /\ failing \subseteq pendingSlash
    /\ fault # "none" => failing = {}
    /\ proofCall' = [op |-> "GenerateSlashExitProofs", fault |-> fault,
                     failing |-> failing,
                     res |-> generateSlashExitProofs(exitStore, pendingSlash,
                                checkpointBlocks(accepted), fault, failing)]
    /\ UNCHANGED <<headers, exitStore, lastSaved, pendingSlash, lastSentBlock, tasks,
                   rootCursor, accepted, call, parseCall>>

\* The root chain accepts the checkpoint some validator submitted for block
\* b: the next epoch-ending block, or a block before it.
RootCheckpoint(b) ==
    /\ b \in (rootCursor + 1)..Len(headers)
    /\ \A p \in (rootCursor + 1)..(b - 1) : ~headers[p].isEnd
    /\ rootAccepts(rootCursor, b)
    /\ rootCursor' = b
    /\ accepted' = Append(accepted, checkpointTxn(b, b, headers[b].isEnd, headers))
    /\ proofCall' = NoProofCall
    /\ UNCHANGED <<headers, exitStore, lastSaved, pendingSlash, lastSentBlock, tasks,
                   call, parseCall>>

----------------------------------------------------------------------------
(* Specifications *)

Init ==
    /\ headers = <<>>
    /\ exitStore = {}
    /\ lastSaved = 0
    /\ pendingSlash = {}
    /\ lastSentBlock = 0
    /\ tasks = <<>>
    /\ rootCursor = 0
    /\ accepted = <<>>
    /\ call = NoCall
    /\ proofCall = NoProofCall
    /\ parseCall = NoParseCall

Miners == {Self, Other}

\* Blocks without bridge events.
PlainBlocks(hdrs) == {NewBlock(hdrs, e, m, <<>>) : e \in BOOLEAN, m \in Miners}

\* The orders in which the exits of a subset of S can be emitted.
RECURSIVE ExitOrders(_)
ExitOrders(S) ==
    {<<>>} \cup UNION {{<<ExitLog(x)>> \o o : o \in ExitOrders(S \ {x})} : x \in S}

\* Blocks of another miner with exits not emitted before, in any log order,
\* and at most one slash event, for an exit emitted before. The first epoch
\* is one block long and the later ones EpochSize blocks.
EventBlocks(hdrs) ==
    {NewBlock(hdrs, (Len(hdrs) + 1) % EpochSize = 1, Other, x \o s) :
        x \in ExitOrders(ExitIDs \ UsedExitIDs(hdrs)),
        s \in {<<>>} \cup {<<SlashLog(id)>> : id \in UsedExitIDs(hdrs)}}

\* Blocks of any miner, epoch-ending or not, with at most one exit, not
\* emitted before.
MinedBlocks(hdrs) ==
    {NewBlock(hdrs, e, m, x) :
        e \in BOOLEAN, m \in Miners,
        x \in {<<>>} \cup {<<ExitLog(id)>> : id \in ExitIDs \ UsedExitIDs(hdrs)}}

\* Checkpoint submission: blocks are finalized, PostBlock launches the
\* goroutines, the goroutines run against the root chain.
Next ==
    \/ /\ Len(headers) < MaxBlock
       /\ \E blk \in PlainBlocks(headers) : PostBlock(blk, "none")
       /\ Len(tasks') <= MaxTasks
    \/ \E i \in 1..MaxTasks, f \in StartFaults : SubmitStart(i, f)
    \/ \E i \in 1..MaxTasks, f \in StepFaults, o \in TxOutcomes : SubmitStep(i, f, o)

Spec == Init /\ [][Next]_vars

\* The event store: blocks carry exit and slash events, any step of
\* PostBlock may fail, and a failed block may be retried.
NextStore ==
    \/ /\ Len(headers) < MaxStoreBlock
       /\ \E blk \in EventBlocks(headers), f \in Faults : PostBlock(blk, f)
    \/ \E f \in Faults : PostBlockRetry(f)
    \/ \E id \in ExitIDs : EnqueueSlashExit(id)

SpecStore == Init /\ [][NextStore]_vars

\* The checkpoint decision of PostBlock: blocks of any miner, any step may
\* fail, the node may restart. The goroutines are launched and not scheduled.
NextPost ==
    \/ /\ Len(headers) < MaxStoreBlock
       /\ \E blk \in MinedBlocks(headers), f \in Faults : PostBlock(blk, f)
    \/ \E f \in Faults : PostBlockRetry(f)
    \/ Restart

SpecPost == Init /\ [][NextPost]_vars

\* Blocks of another miner, epoch-ending or not, with at most one exit, not
\* emitted before, and at most one slash event, for an exit emitted before.
ProofBlocks(hdrs) ==
    {NewBlock(hdrs, e, Other, x \o s) :
        e \in BOOLEAN,
        x \in {<<>>} \cup {<<ExitLog(id)>> : id \in ExitIDs \ UsedExitIDs(hdrs)},
        s \in {<<>>} \cup {<<SlashLog(id)>> : id \in UsedExitIDs(hdrs)}}

\* Proof generation: blocks carry exit and slash events, the root chain
\* takes checkpoints, proofs are requested at any time.
NextProof ==
    \/ /\ Len(headers) < MaxStoreBlock
       /\ \E blk \in ProofBlocks(headers) : PostBlock(blk, "none")
    \/ \E id \in ExitIDs : EnqueueSlashExit(id)
    \/ \E b \in 1..MaxStoreBlock : RootCheckpoint(b)
    \/ \E id \in ExitIDs, f \in ProofFaults : GenerateExitProof(id, f)
    \/ \E f \in SlashProofFaults, failing \in SUBSET ExitIDs :
          GenerateSlashExitProofs(f, failing)

SpecProof == Init /\ [][NextProof]_vars

\* The faults of PostBlock the slash specification looks at.
SlashFaults == {"none", "removeSlashExitEvents"}

\* Slash removal: blocks carry exit and slash events, the removal from the
\* pending queue may fail, block finalization goes on with the next block,
\* and the proofs of the pending slash exits are requested at any time.
NextSlash ==
    \/ /\ Len(headers) < MaxBlock
       /\ \E blk \in ProofBlocks(headers), f \in SlashFaults : PostBlock(blk, f)
    \/ \E id \in ExitIDs : EnqueueSlashExit(id)
    \/ \E b \in 1..MaxBlock : RootCheckpoint(b)
    \/ GenerateSlashExitProofs("none", {})

SpecSlash == Init /\ [][NextSlash]_vars

\* The headers parseEvent may be given: any number and epoch, epoch-ending
\* or not, with extra data that decodes or not.
ParseHeaders ==
    {[number |-> n, epoch |-> e, isEnd |-> end, miner |-> Other, logs |-> <<>>,
      extraOk |-> ok] :
        n \in 1..MaxBlock, e \in 1..MaxBlock, end \in BOOLEAN, ok \in BOOLEAN}

\* The logs parseEvent may be given: the exit topic, the slash topic or
\* another one, well-formed or not.
ParseLogs ==
    {[topic |-> t, id |-> id, valid |-> v] :
        t \in {"exit", "slash", "other"}, id \in ExitIDs, v \in BOOLEAN}

\* parseEvent is called with a header and one of its logs.
ParseEvent ==
    /\ parseCall.op = "input"
    /\ parseCall' = [op |-> "parseEvent", h |-> parseCall.h, l |-> parseCall.l,
                     res |-> parseEvent(parseCall.h, parseCall.l)]
    /\ UNCHANGED <<headers, exitStore, lastSaved, pendingSlash, lastSentBlock, tasks,
                   rootCursor, accepted, call, proofCall>>

InitParse ==
    /\ headers = <<>>
    /\ exitStore = {}
    /\ lastSaved = 0
    /\ pendingSlash = {}
    /\ lastSentBlock = 0
    /\ tasks = <<>>
    /\ rootCursor = 0
    /\ accepted = <<>>
    /\ call = NoCall
    /\ proofCall = NoProofCall
    /\ parseCall \in {[op |-> "input", h |-> h, l |-> l] :
                        h \in ParseHeaders, l \in ParseLogs}

NextParse == ParseEvent

\* parseEvent on every header and log.
SpecParse == InitParse /\ [][NextParse]_vars

----------------------------------------------------------------------------
(* Catch-up: what submitCheckpoint submits *)

\* Block p is the last block of its epoch: the next header has another epoch.
EpochEnding(p) ==
    /\ p \in DOMAIN headers
    /\ p + 1 \in DOMAIN headers
    /\ EpochNumber(headers, p) # EpochNumber(headers, p + 1)

\* The submissions a task has issued: the block and the isEndOfEpoch tag of each.
Issued(t) ==
    [k \in DOMAIN t.sent |->
        [block |-> t.sent[k].txn.input.BlockNumber,
         isEndOfEpoch |-> t.sent[k].txn.isEndOfEpoch]]

\* The blocks of S as submissions tagged isEndOfEpoch, in ascending order.
RECURSIVE AscendingBoundaries(_)
AscendingBoundaries(S) ==
    IF S = {} THEN <<>>
    ELSE LET p == CHOOSE x \in S : \A y \in S : x <= y
         IN <<[block |-> p, isEndOfEpoch |-> TRUE]>> \o AscendingBoundaries(S \ {p})

\* The sequence a complete call with cursor L must issue: the epoch-ending
\* blocks p with L+1 <= p < N in ascending order, then latestHeader.
CatchUpSequence(L, N, flag) ==
    AscendingBoundaries({p \in (L + 1)..(N - 1) : EpochEnding(p)})
    \o <<[block |-> N, isEndOfEpoch |-> flag]>>

IsPrefix(a, b) == Len(a) <= Len(b) /\ a = SubSeq(b, 1, Len(a))

AcceptedBlocks == {accepted[k].input.BlockNumber : k \in DOMAIN accepted}

\* C1: a call of submitCheckpoint(latestHeader, flag) in which every lookup,
\* decode and transaction succeeds has issued exactly the epoch-ending blocks
\* p with L+1 <= p < N, each tagged isEndOfEpoch, in ascending order, and then
\* latestHeader with the caller's flag, where L is the cursor it read.
C1_CatchUpSubmitsMissedBoundariesThenLatest ==
    \A i \in DOMAIN tasks :
        tasks[i].pc = "ok" =>
            Issued(tasks[i]) = CatchUpSequence(tasks[i].L, tasks[i].N, tasks[i].flag)

\* A complete call that caught up two missed epoch-ending blocks before the
\* epoch-ending latestHeader: the scaled example of cursor 10, blocks 15, 25, 40.
C1_Witness ==
    \E i \in DOMAIN tasks :
        /\ tasks[i].pc = "ok"
        /\ tasks[i].flag
        /\ Len(tasks[i].sent) = 3
        /\ tasks[i].N > tasks[i].L + 2

\* C2: whenever the root chain has accepted a checkpoint for block B, it has
\* accepted one for every epoch-ending block above its initial cursor (0) and
\* below B, whatever lookups and transactions failed on the way.
C2_NoEpochTransitionSkipped ==
    \A B \in AcceptedBlocks :
        \A p \in 1..(B - 1) : EpochEnding(p) => p \in AcceptedBlocks

\* A call failed after its first submission was accepted, and a later call
\* took up the walk from the moved cursor and submitted the next missed
\* epoch-ending block before its own.
C2_Witness ==
    \E i, j \in DOMAIN tasks :
        /\ tasks[i].pc = "failed"
        /\ tasks[i].sent # <<>>
        /\ tasks[j].pc = "ok"
        /\ tasks[j].L > 0
        /\ Len(tasks[j].sent) >= 2
        /\ tasks[j].L \in {tasks[i].sent[k].txn.input.BlockNumber : k \in DOMAIN tasks[i].sent}

\* C8: with any number of calls of submitCheckpoint running at once, every
\* accepted checkpoint is for an epoch-ending block or for the latestHeader of
\* some call, no epoch-ending block below an accepted one is left out, the
\* root chain's checkpoints ascend to its cursor, and a submission for a block
\* at or below the cursor is one the root chain did not take.
C8_ConcurrentCatchUpSelfCorrecting ==
    /\ \A B \in AcceptedBlocks :
          /\ EpochEnding(B) \/ \E i \in DOMAIN tasks : tasks[i].N = B
          /\ \A p \in 1..(B - 1) : EpochEnding(p) => p \in AcceptedBlocks
    /\ \A k \in DOMAIN accepted :
          /\ k > 1 => accepted[k - 1].input.BlockNumber < accepted[k].input.BlockNumber
          /\ accepted[k].input.BlockNumber <= rootCursor
    /\ (accepted # <<>>) => rootCursor = accepted[Len(accepted)].input.BlockNumber
    /\ \A i \in DOMAIN tasks : \A k \in DOMAIN tasks[i].sent :
          LET s == tasks[i].sent[k]
          IN /\ s.txn.input.BlockNumber <= s.cursor => s.outcome \in {"senderr", "receipt"}
             /\ s.outcome \in {"accepted", "lost"} =>
                    \E a \in DOMAIN accepted : accepted[a] = s.txn

\* Two calls overlap: both read the same cursor, the first one's submission
\* of an epoch-ending block was accepted and it walks on, and the other one
\* submitted the same block when the cursor had already passed it.
C8_Witness ==
    \E i, j \in DOMAIN tasks :
        /\ i # j
        /\ tasks[i].pc = "walk"
        /\ tasks[i].sent # <<>>
        /\ tasks[j].L = tasks[i].L
        /\ tasks[j].pc = "failed"
        /\ tasks[j].sent # <<>>
        /\ LET s == tasks[j].sent[Len(tasks[j].sent)]
           IN /\ s.txn.input.BlockNumber <= s.cursor
              /\ s.txn.input.BlockNumber > tasks[j].L
              /\ s.txn = tasks[i].sent[1].txn

\* A step of one call of submitCheckpoint.
SubmitCheckpointStep ==
    \E i \in DOMAIN tasks :
        /\ Running(tasks[i])
        /\ i \in DOMAIN tasks'
        /\ tasks'[i] # tasks[i]
        /\ tasks'[i].pc # "killed"

\* C9: the submissions of submitCheckpoint are a function of the cursor it
\* read, the finalized headers and its two arguments alone: whatever
\* lastSentBlock is, what a call has issued is a prefix of the catch-up
\* sequence of that cursor, and no step of it writes lastSentBlock, the
\* watermark, the exit events or the pending-slash queue.
C9_CatchUpFromRootChainStateOnly ==
    [][SubmitCheckpointStep =>
        /\ lastSentBlock' = lastSentBlock
        /\ lastSaved' = lastSaved
        /\ exitStore' = exitStore
        /\ pendingSlash' = pendingSlash
        /\ \A i \in DOMAIN tasks' :
              tasks'[i].pc # "start" =>
                 IsPrefix(Issued(tasks'[i]),
                          CatchUpSequence(tasks'[i].L, tasks'[i].N, tasks'[i].flag))]_vars

\* A call completed a catch-up of a missed epoch-ending block while the hint
\* lastSentBlock was ahead of both the cursor it read and its own block.
C9_Witness ==
    \E i \in DOMAIN tasks :
        /\ tasks[i].pc = "ok"
        /\ Len(tasks[i].sent) >= 2
        /\ lastSentBlock > tasks[i].N

\* C7: checkpoint submission is fire-and-forget. A PostBlock call that
\* launched a submission returned nil, and no step of the submission, failed
\* or not, changes what PostBlock returned or the store it left (exit events,
\* watermark, pending-slash queue).
C7_SubmissionIsFireAndForget ==
    /\ [](call.launched => call.res = "ok")
    /\ [][SubmitCheckpointStep =>
            /\ call' = call
            /\ exitStore' = exitStore
            /\ lastSaved' = lastSaved
            /\ pendingSlash' = pendingSlash]_vars

\* The submission launched for a block has failed, PostBlock has meanwhile
\* returned nil for a later block, and another submission is still running.
C7_Witness ==
    \E i, j \in DOMAIN tasks :
        /\ tasks[i].pc = "failed"
        /\ Running(tasks[j])
        /\ call.block > tasks[i].N
        /\ call.block > tasks[j].N
        /\ call.res = "ok"
        /\ lastSaved = call.block

----------------------------------------------------------------------------
(* The event store and the watermark *)

\* The exit events parseEvent finds in the logs of block n, as stored.
ExitEventsOfBlock(n) ==
    LET events == SelectKind(eventsOfLogs(headers[n], headers[n].logs, 1), "exit")
    IN {[ID |-> events[k].ID, EpochNumber |-> events[k].EpochNumber,
         BlockNumber |-> events[k].BlockNumber] : k \in DOMAIN events}

\* The exit IDs of the slash events in the logs of block n.
SlashedInBlock(n) ==
    {headers[n].logs[k].id :
        k \in {j \in DOMAIN headers[n].logs : headers[n].logs[j].topic = "slash"}}

\* C3: every exit event of a block at or below the watermark is in the exit
\* event store; and when updateLastSaved fails after insertExitEvents, the
\* watermark is the one the call found and the events of the blocks the call
\* covered are stored.
C3_WatermarkCoversStoredExitEvents ==
    /\ \A n \in 1..lastSaved : ExitEventsOfBlock(n) \subseteq exitStore
    /\ call.failAt = "updateLastSaved" =>
          /\ lastSaved = call.preLastSaved
          /\ \A n \in (call.preLastSaved + 1)..call.block :
                ExitEventsOfBlock(n) \subseteq exitStore

\* The call for a block failed at updateLastSaved: the exit events of that
\* block and of an earlier block whose call had failed are stored, and the
\* watermark is still below both.
C3_Witness ==
    /\ call.failAt = "updateLastSaved"
    /\ call.block = 2
    /\ lastSaved = 0
    /\ ExitEventsOfBlock(1) # {}
    /\ ExitEventsOfBlock(2) # {}
    /\ ExitEventsOfBlock(1) \cup ExitEventsOfBlock(2) \subseteq exitStore

\* C4: the exit ID of every slash event of a block at or below the watermark
\* has been removed from the pending-slash-exit queue.
C4_WatermarkCoversSlashRemoval ==
    \A n \in 1..lastSaved : SlashedInBlock(n) \cap pendingSlash = {}

\* The root of the ascending-ID leaf sequence of a set of exit IDs.
RECURSIVE AscendingLeaves(_)
AscendingLeaves(ids) ==
    IF ids = {} THEN <<>>
    ELSE LET m == CHOOSE x \in ids : \A y \in ids : x <= y
         IN <<EncodeExit([ID |-> m])>> \o AscendingLeaves(ids \ {m})

CanonicalRoot(ids) ==
    IF ids = {} THEN ZeroHash ELSE MerkleHash(AscendingLeaves(ids))

\* The exit events found so far that parseEvent files under an epoch.
FoundInEpoch(epoch) ==
    {e \in UNION {ExitEventsOfBlock(n) : n \in 1..lastSaved} : e.EpochNumber = epoch}

----------------------------------------------------------------------------
(* The checkpoint decision of PostBlock *)

\* C5: a PostBlock call in which a step failed returned an error, launched
\* no submission and left lastSentBlock as it was; when the failed step is
\* updateLastSaved the watermark is the one the call found.
C5_FailedPostBlockLaunchesNothing ==
    /\ call.failAt # "none" => call.res = "err"
    /\ call.res = "err" =>
          /\ ~call.launched
          /\ Len(tasks) = call.preTasks
          /\ lastSentBlock = call.preLastSent
    /\ call.failAt = "updateLastSaved" => lastSaved = call.preLastSaved

\* updateLastSaved failed, after the insertion of an exit event, for an
\* epoch-ending block this node mined: the watermark is below the block.
C5_Witness ==
    /\ call.failAt = "updateLastSaved"
    /\ call.res = "err"
    /\ headers[call.block].miner = Self
    /\ headers[call.block].isEnd
    /\ ExitEventsOfBlock(call.block) # {}
    /\ ExitEventsOfBlock(call.block) \subseteq exitStore
    /\ lastSaved < call.block

\* C6: PostBlock launches a submission exactly when all its store steps
\* succeeded, the block's miner is this node and the block is epoch-ending or
\* is lastSentBlock + CheckpointInterval; it launches at most one, and that
\* one is submitCheckpoint for the block's header with the request's flag.
C6_LaunchesExactlyWhenDue ==
    call.block # 0 =>
        LET h == headers[call.block]
            due == h.isEnd \/ call.block = call.preLastSent + CheckpointInterval
        IN /\ call.launched <=> (call.failAt = "none" /\ h.miner = Self /\ due)
           /\ Len(tasks) = call.preTasks + (IF call.launched THEN 1 ELSE 0)
           /\ call.launched => tasks[Len(tasks)] = NewTask(call.block, h.isEnd)

\* A block in the middle of an epoch, mined by this node at lastSentBlock +
\* CheckpointInterval, launched a submission with the flag unset.
C6_Witness ==
    /\ call.block # 0
    /\ call.launched
    /\ ~headers[call.block].isEnd
    /\ tasks[Len(tasks)].N = call.block
    /\ ~tasks[Len(tasks)].flag

----------------------------------------------------------------------------
(* Exit proofs *)

\* The stored exit event of an ID.
StoredExit(id) == CHOOSE e \in exitStore : e.ID = id

\* C11: when GenerateExitProof(exitID) succeeds, the checkpoint block is the
\* one the root chain reports for the target's block, the tree is built over
\* exactly the stored exit events of the target's epoch with BlockNumber at
\* or below that checkpoint block, the target is one of the leaves, LeafIndex
\* is its position, the proof verifies against the root of the tree, and it
\* verifies against no root of the tree with one leaf's encoding changed.
C11_ExitProofOverCheckpointedEvents ==
    (proofCall.op = "GenerateExitProof" /\ ~proofCall.res.err) =>
        /\ \E e \in exitStore : e.ID = proofCall.exitID
        /\ LET target == StoredExit(proofCall.exitID)
               proof == proofCall.res.proof
               tree == proofCall.res.tree
               included == {e \in exitStore :
                               /\ e.EpochNumber = target.EpochNumber
                               /\ e.BlockNumber <= proof.CheckpointBlock}
           IN /\ proof.CheckpointBlock \in AcceptedBlocks
              /\ proof.CheckpointBlock >= target.BlockNumber
              /\ \A b \in AcceptedBlocks :
                    b >= target.BlockNumber => b >= proof.CheckpointBlock
              /\ tree = AscendingLeaves({e.ID : e \in included})
              /\ target \in included
              /\ proof.ExitEvent = target
              /\ proof.LeafIndex + 1 \in DOMAIN tree
              /\ tree[proof.LeafIndex + 1] = EncodeExit(target)
              /\ VerifyProof(EncodeExit(target), proof.Data, MerkleHash(tree))
              /\ \A k \in DOMAIN tree :
                    ~VerifyProof(EncodeExit(target), proof.Data,
                                 MerkleHash([tree EXCEPT ![k] = <<"changed">>]))

\* A proof was generated for an exit whose epoch holds a later exit the
\* covering checkpoint does not reach: the later exit is not a leaf.
C11_Witness ==
    /\ proofCall.op = "GenerateExitProof"
    /\ ~proofCall.res.err
    /\ \E e \in exitStore :
          /\ e.EpochNumber = proofCall.res.proof.ExitEvent.EpochNumber
          /\ e.BlockNumber > proofCall.res.proof.CheckpointBlock
          /\ EncodeExit(e) \notin {proofCall.res.tree[k] : k \in DOMAIN proofCall.res.tree}

\* The numbers of S in ascending order.
RECURSIVE Ascending(_)
Ascending(S) ==
    IF S = {} THEN <<>>
    ELSE LET m == CHOOSE x \in S : \A y \in S : x <= y
         IN <<m>> \o Ascending(S \ {m})

\* The pending IDs GenerateExitProof succeeds for when the root chain call
\* fails for the IDs of `failing`: stored, and covered by a checkpoint.
Provable(failing) ==
    {id \in pendingSlash \ failing :
        \E e \in exitStore : e.ID = id /\ \E b \in AcceptedBlocks : b >= e.BlockNumber}

\* C12: GenerateSlashExitProofs returns an error exactly when the read of the
\* pending queue fails; otherwise it returns, in the order of the queue, the
\* proofs of exactly the pending IDs GenerateExitProof succeeds for, each for
\* its stored event against a checkpoint of the root chain, however many of
\* the pending IDs fail.
C12_SlashProofsSkipFailedIDs ==
    proofCall.op = "GenerateSlashExitProofs" =>
        LET r == proofCall.res
        IN /\ r.err <=> proofCall.fault = "getPendingSlashExitIDs"
           /\ r.err => r.proofs = <<>>
           /\ ~r.err =>
                 /\ [k \in DOMAIN r.proofs |-> r.proofs[k].ExitEvent.ID]
                       = Ascending(Provable(proofCall.failing))
                 /\ \A k \in DOMAIN r.proofs :
                       /\ r.proofs[k].ExitEvent \in exitStore
                       /\ r.proofs[k].CheckpointBlock \in AcceptedBlocks
                       /\ r.proofs[k].CheckpointBlock >= r.proofs[k].ExitEvent.BlockNumber

\* The first of two pending IDs is not yet covered by a checkpoint and the
\* second is: the answer is the proof of the second and no error.
C12_Witness ==
    /\ proofCall.op = "GenerateSlashExitProofs"
    /\ ~proofCall.res.err
    /\ proofCall.failing = {}
    /\ Cardinality(pendingSlash) >= 2
    /\ Len(proofCall.res.proofs) = 1
    /\ \E id \in pendingSlash : id < proofCall.res.proofs[1].ExitEvent.ID

\* A request GenerateExitProof has just been answered.
ExitProofAnswered ==
    /\ proofCall' # proofCall
    /\ proofCall'.op = "GenerateExitProof"

\* C13: GenerateExitProof(exitID) returns an error and the empty proof when
\* the exit is not in the store, or when the root chain holds no checkpoint
\* at or above the event's block (isFound = false); it has then neither read
\* the epoch's events nor built a tree; and no answer of GenerateExitProof
\* changes the exit events, the watermark or the pending-slash queue.
C13_ExitProofFailsWithoutEventOrCheckpoint ==
    /\ [](proofCall.op = "GenerateExitProof" =>
            LET missing == ~\E e \in exitStore : e.ID = proofCall.exitID
                uncovered == /\ ~missing
                             /\ ~\E b \in AcceptedBlocks :
                                    b >= StoredExit(proofCall.exitID).BlockNumber
            IN (missing \/ uncovered) =>
                  /\ proofCall.res.err
                  /\ proofCall.res.proof = NoProof
                  /\ proofCall.res.tree = <<>>
                  /\ \A k \in DOMAIN proofCall.res.steps :
                        proofCall.res.steps[k] \in {"getExitEvent", "getCheckpointBlock"}
                  /\ missing => proofCall.res.steps = <<"getExitEvent">>)
    /\ [][ExitProofAnswered =>
            /\ exitStore' = exitStore
            /\ lastSaved' = lastSaved
            /\ pendingSlash' = pendingSlash]_vars

\* A proof was asked for a stored exit while the root chain's checkpoints
\* all lie below the exit's block: the answer is an error.
C13_Witness ==
    /\ proofCall.op = "GenerateExitProof"
    /\ proofCall.fault = "none"
    /\ \E e \in exitStore : e.ID = proofCall.exitID
    /\ AcceptedBlocks # {}
    /\ \A b \in AcceptedBlocks : b < StoredExit(proofCall.exitID).BlockNumber
    /\ proofCall.res.err

\* PostBlock has processed block n: the watermark covers it and the last
\* call of PostBlock returned nil.
Processed(n) ==
    /\ n \in 1..lastSaved
    /\ call.res = "ok"

\* C14: once PostBlock has processed a block with a slash event for exit ID
\* x, x is not in the pending-slash-exit queue and GenerateSlashExitProofs
\* returns no proof for x; and removing IDs that are absent, after a removal
\* or from the start, takes out no other ID.
C14_SlashRemovalIdempotent ==
    /\ \A n \in DOMAIN headers : Processed(n) =>
          \A x \in SlashedInBlock(n) :
             /\ x \notin pendingSlash
             /\ proofCall.op = "GenerateSlashExitProofs" =>
                   \A k \in DOMAIN proofCall.res.proofs :
                      proofCall.res.proofs[k].ExitEvent.ID # x
    /\ \A ids \in SUBSET ExitIDs : \A again \in SUBSET ids :
          LET once == removeSlashExitEvents(pendingSlash, ids)
          IN /\ once = pendingSlash \ ids
             /\ removeSlashExitEvents(once, again) = once

----------------------------------------------------------------------------
(* Failures and payloads of submitCheckpoint *)

\* C16: submitCheckpoint aborts on the first failure. A submission that was
\* not accepted is the last one of its call and the call has returned an
\* error; a call that returned an error (cursor query, header lookup or
\* decode, validator set, encoding, send, failed receipt) takes no further
\* step; a call that returned nil had every submission accepted; and no step
\* of a call writes lastSentBlock or the event store.
C16_AbortsOnFirstFailure ==
    /\ [](\A i \in DOMAIN tasks :
            LET t == tasks[i]
            IN /\ \A k \in DOMAIN t.sent :
                     t.sent[k].outcome # "accepted" =>
                        k = Len(t.sent) /\ t.pc = "failed"
               /\ t.err # "none" => t.pc = "failed"
               /\ t.pc = "failed" => t.err # "none"
               /\ t.pc = "ok" =>
                     \A k \in DOMAIN t.sent : t.sent[k].outcome = "accepted"
               /\ t.pc = "failed" =>
                     Issued(t) # CatchUpSequence(t.L, t.N, t.flag)
                     \/ t.sent[Len(t.sent)].outcome # "accepted")
    /\ [][/\ \A i \in DOMAIN tasks : tasks[i].pc = "failed" => tasks'[i] = tasks[i]
          /\ SubmitCheckpointStep =>
                /\ lastSentBlock' = lastSentBlock
                /\ lastSaved' = lastSaved
                /\ exitStore' = exitStore
                /\ pendingSlash' = pendingSlash]_vars

\* The submission of the first of two missed epoch-ending blocks came back
\* with a failed receipt: the call has returned an error with the second
\* missed block and latestHeader not submitted.
C16_Witness ==
    \E i \in DOMAIN tasks :
        /\ tasks[i].pc = "failed"
        /\ tasks[i].err = "receipt"
        /\ Len(tasks[i].sent) = 1
        /\ Len(CatchUpSequence(tasks[i].L, tasks[i].N, tasks[i].flag)) = 3

\* C17: every submission pairs the number and the hash of a block with the
\* metadata decoded from that same block, and so with that block's epoch
\* number: a submission below latestHeader is for an epoch-ending block with
\* that block's metadata, and the last submission of a call that returned
\* nil is latestHeader with latestHeader's metadata.
C17_SubmissionCarriesOwnMetadata ==
    \A i \in DOMAIN tasks :
        /\ \A k \in DOMAIN tasks[i].sent :
              LET input == tasks[i].sent[k].txn.input
              IN /\ input.BlockHash = input.BlockNumber
                 /\ input.Metadata = input.BlockNumber
                 /\ input.Epoch = EpochNumber(headers, input.BlockNumber)
                 /\ input.BlockNumber < tasks[i].N => EpochEnding(input.BlockNumber)
        /\ tasks[i].pc = "ok" =>
              LET input == tasks[i].sent[Len(tasks[i].sent)].txn.input
              IN input.BlockNumber = tasks[i].N /\ input.Metadata = tasks[i].N

\* One call submitted a missed epoch-ending block and then latestHeader (the
\* loop ran), another found the cursor right below latestHeader and
\* submitted latestHeader alone (the loop did not run).
C17_Witness ==
    \E i, j \in DOMAIN tasks :
        /\ tasks[i].pc = "ok"
        /\ Len(tasks[i].sent) >= 2
        /\ tasks[j].pc = "ok"
        /\ tasks[j].L + 1 >= tasks[j].N
        /\ Len(tasks[j].sent) = 1

\* C18: a submission carries a next validator set only when it is tagged
\* isEndOfEpoch, and then the set as of its own block number; a submission
\* not tagged carries the empty set; every submission below latestHeader is
\* tagged, and the one for latestHeader has the caller's flag; GetValidators
\* fails only for a submission that is tagged, and the call then returns
\* with no transaction sent.
C18_ValidatorSetOnlyAtEndOfEpoch ==
    /\ [](\A i \in DOMAIN tasks :
            LET t == tasks[i]
                due == CatchUpSequence(t.L, t.N, t.flag)
            IN /\ \A k \in DOMAIN t.sent :
                     LET txn == t.sent[k].txn
                     IN /\ txn.input.NewValidatorSet =
                              (IF txn.isEndOfEpoch
                               THEN GetValidators(txn.input.BlockNumber)
                               ELSE EmptyAccountSet)
                        /\ txn.input.NewValidatorSet # EmptyAccountSet => txn.isEndOfEpoch
                        /\ txn.input.BlockNumber < t.N => txn.isEndOfEpoch
                        /\ txn.input.BlockNumber = t.N => txn.isEndOfEpoch = t.flag
               /\ t.err = "validators" =>
                     /\ t.pc = "failed"
                     /\ Len(t.sent) < Len(due)
                     /\ due[Len(t.sent) + 1].isEndOfEpoch
                     /\ \A k \in DOMAIN t.sent : t.sent[k].outcome = "accepted")
    /\ [][\A i \in DOMAIN tasks :
             (tasks'[i].err = "validators" /\ tasks[i].err # "validators") =>
                /\ tasks'[i].sent = tasks[i].sent
                /\ accepted' = accepted
                /\ rootCursor' = rootCursor]_vars

\* One call sent a missed epoch-ending block with its validator set and then
\* a latestHeader in the middle of an epoch with the empty set; in another
\* call GetValidators failed and nothing was sent.
C18_Witness ==
    \E i, j \in DOMAIN tasks :
        /\ tasks[i].pc = "ok"
        /\ ~tasks[i].flag
        /\ Len(tasks[i].sent) >= 2
        /\ tasks[i].sent[1].txn.input.NewValidatorSet # EmptyAccountSet
        /\ tasks[i].sent[Len(tasks[i].sent)].txn.input.NewValidatorSet = EmptyAccountSet
        /\ tasks[j].err = "validators"
        /\ tasks[j].sent = <<>>

----------------------------------------------------------------------------
(* The cadence hint *)

\* C19: when PostBlock launches a submission for block N, lastSentBlock is N
\* when it returns and stays N whatever the submission does; a PostBlock call
\* that launches nothing leaves lastSentBlock as it found it; and no step of
\* submitCheckpoint changes lastSentBlock.
C19_LastSentBlockSetAtLaunch ==
    /\ [](call.block # 0 =>
            lastSentBlock = (IF call.launched THEN call.block ELSE call.preLastSent))
    /\ [][SubmitCheckpointStep => lastSentBlock' = lastSentBlock]_vars

\* The submission launched for the last block has failed, and lastSentBlock
\* is that block.
C19_Witness ==
    /\ call.launched
    /\ tasks[Len(tasks)].N = call.block
    /\ tasks[Len(tasks)].pc = "failed"
    /\ tasks[Len(tasks)].sent # <<>>
    /\ lastSentBlock = call.block
    /\ call.preLastSent # call.block

----------------------------------------------------------------------------
(* Attribution of exit events *)

\* C20: parseEvent files the exit event of a log of an epoch-ending header
\* under the header's epoch + 1 and number + 1, and the exit event of a log
\* of any other header under the header's own epoch and number; when the
\* header's metadata does not decode it returns an error and no event; for a
\* log whose topic is neither the exit nor the slash one it returns no event
\* and no error.
C20_ExitEventAttribution ==
    parseCall.op = "parseEvent" =>
        LET h == parseCall.h
            l == parseCall.l
            r == parseCall.res
        IN /\ (l.topic = "exit" /\ h.extraOk /\ l.valid) =>
                 /\ r.matches /\ ~r.err
                 /\ r.event.kind = "exit"
                 /\ r.event.ID = l.id
                 /\ h.isEnd => /\ r.event.EpochNumber = h.epoch + 1
                               /\ r.event.BlockNumber = h.number + 1
                 /\ ~h.isEnd => /\ r.event.EpochNumber = h.epoch
                                /\ r.event.BlockNumber = h.number
           /\ (l.topic = "exit" /\ ~h.extraOk) =>
                 r.err /\ ~r.matches /\ r.event = NoEvent
           /\ l.topic \notin {"exit", "slash"} =>
                 ~r.err /\ ~r.matches /\ r.event = NoEvent

\* An exit log of an epoch-ending header was parsed.
C20_Witness ==
    /\ parseCall.op = "parseEvent"
    /\ parseCall.l.topic = "exit"
    /\ parseCall.h.isEnd
    /\ parseCall.res.matches
    /\ parseCall.res.event.BlockNumber = parseCall.h.number + 1
    /\ parseCall.res.event.EpochNumber = parseCall.h.epoch + 1

----------------------------------------------------------------------------
(* The cursor at or beyond latestHeader *)

\* The transaction of a call was handed to the root chain: the call got
\* past every lookup, decode and encoding.
Handed(t) == t.pc = "ok" \/ (t.pc = "failed" /\ t.err \in {"senderr", "receipt", "lost"})

\* C21: a call of submitCheckpoint that read a cursor L with L + 1 >=
\* latestHeader.Number looks up no header, and whenever it gets to send it
\* issues exactly one submission, for latestHeader with the caller's flag,
\* also when the cursor is at or beyond latestHeader.
C21_NoLookupAndOneSubmissionAtCursor ==
    \A i \in DOMAIN tasks :
        LET t == tasks[i]
        IN (t.pc # "start" /\ t.err # "cursor" /\ t.L + 1 >= t.N) =>
              /\ t.lookups = {}
              /\ Len(t.sent) <= 1
              /\ Handed(t) => Issued(t) = <<[block |-> t.N, isEndOfEpoch |-> t.flag]>>
              /\ t.pc = "walk" => t.sent = <<>>

\* A call found the cursor beyond its latestHeader and still submitted
\* latestHeader, which the root chain refused.
C21_Witness ==
    \E i \in DOMAIN tasks :
        /\ tasks[i].pc = "failed"
        /\ tasks[i].L > tasks[i].N
        /\ tasks[i].lookups = {}
        /\ Len(tasks[i].sent) = 1
        /\ tasks[i].sent[1].txn.input.BlockNumber = tasks[i].N
        /\ tasks[i].sent[1].outcome = "receipt"

----------------------------------------------------------------------------
(* The cadence hint is matched by equality only *)

\* Blocks of either miner are finalized, PostBlock may fail and be retried,
\* and the node may restart.
NextCadence ==
    \/ /\ Len(headers) < MaxBlock
       /\ \E blk \in PlainBlocks(headers), f \in Faults : PostBlock(blk, f)
    \/ \E f \in Faults : PostBlockRetry(f)
    \/ Restart

SpecCadence == Init /\ [][NextCadence]_vars

\* The block the cadence hint points at.
CadenceBlock == lastSentBlock + CheckpointInterval

\* The block the hint points at has been finalized and PostBlock is done
\* with it: no failed call for it is waiting to be retried.
CadencePassed ==
    \/ Len(headers) > CadenceBlock
    \/ Len(headers) = CadenceBlock /\ call.res # "err"

\* This step launches a submission.
Launches == Len(tasks') > Len(tasks)

\* C22: PostBlock launches nothing for a block that is not epoch-ending and
\* whose number is not exactly lastSentBlock + CheckpointInterval; and once
\* that block has passed without a launch, the hint stays passed and the
\* only launch, and the only change of lastSentBlock besides a restart's
\* reset, is for an epoch-ending block mined by this node.
C22_MidEpochOnlyOnExactCadence ==
    /\ [](call.block # 0 /\ call.launched =>
            \/ headers[call.block].isEnd
            \/ call.block = call.preLastSent + CheckpointInterval)
    /\ [][CadencePassed =>
            /\ (Launches \/ lastSentBlock' \notin {lastSentBlock, 0}) =>
                  /\ Launches
                  /\ headers'[call'.block].isEnd
                  /\ headers'[call'.block].miner = Self
                  /\ lastSentBlock' = call'.block
            /\ ~Launches => CadencePassed']_vars

\* Block 2, the block the hint of a fresh node points at, was mined by
\* another node; block 3, mined by this node inside the epoch, launches
\* nothing.
C22_Witness ==
    /\ Len(headers) = 3
    /\ headers[2].miner = Other
    /\ ~headers[3].isEnd
    /\ headers[3].miner = Self
    /\ call.block = 3
    /\ call.res = "ok"
    /\ call.preLastSent = 0
    /\ ~call.launched
    /\ lastSentBlock = 0

====
